---- MODULE Spec2Model ----
(***************************************************************************)
(* Model of the two setup scripts of the healthcare AI platform:           *)
(*   data_downloader.py    directory scaffolder, fallback downloader,      *)
(*                         archive extraction, documentation writer        *)
(*   setup_new_device.py   package installer, project setup, quick start   *)
(* The filesystem is a set of directories and a function from file paths   *)
(* to contents. A path is a sequence of components relative to the working *)
(* directory; a content is a sequence of chunks. The network, the zip      *)
(* library and pip are the environment: each call's outcome is chosen      *)
(* nondeterministically among the outcomes the call can have.              *)
(***************************************************************************)
EXTENDS Integers, Sequences, FiniteSets, TLC

VARIABLES
    pc,         \* position of the running script
    entry,      \* which script was started: "setup" or "downloader"
    importable, \* third-party modules data_downloader can import
    pkgIdx,     \* install_requirements: index of the package being installed
    pipCalls,   \* packages handed to pip install, in call order
    dirs,       \* existing directories
    files,      \* existing files: path -> content
    queue,      \* dataset routines main has not called yet
    cur,        \* dataset routine being run
    urlIdx,     \* candidate loop: index i of the URL being tried
    success,    \* candidate loop: the routine's local flag
    attempts,   \* per download unit: the calls of download_file_from_url made
    zipOut,     \* per zip routine: members extracted (-1: no extraction tried)
    touched,    \* per routine: file paths it opened, wrote or deleted
    trace,      \* units of work started and banners printed, in order
    treeLog     \* scaffolder harness: result of each invocation

vars == <<pc, entry, importable, pkgIdx, pipCalls, dirs, files, queue, cur,
          urlIdx, success, attempts, zipOut, touched, trace, treeLog>>

(* ------------------------------ bounds --------------------------------- *)

\* chunks of 8192 bytes in every payload a server sends
NumChunks == 2
\* members of every zip archive
NumEntries == 2
\* invocations of the scaffolder in the scaffolder harness
MaxCalls == 2

(* ----------------------------- constants ------------------------------- *)

directories == <<
    <<"data", "raw", "chest_xray">>,
    <<"data", "raw", "covid_xray">>,
    <<"data", "raw", "brain_mri">>,
    <<"data", "raw", "blood_tests">>,
    <<"data", "raw", "cough_audio">>,
    <<"data", "raw", "diabetes">>,
    <<"data", "raw", "ecg">>,
    <<"data", "raw", "heart_disease">>,
    <<"data", "raw", "medical_text">>,
    <<"data", "raw", "skin_cancer">>,
    <<"data", "processed", "multi_disease", "train", "NORMAL">>,
    <<"data", "processed", "multi_disease", "train", "PNEUMONIA">>,
    <<"data", "processed", "multi_disease", "train", "COVID">>,
    <<"data", "processed", "multi_disease", "test", "NORMAL">>,
    <<"data", "processed", "multi_disease", "test", "PNEUMONIA">>,
    <<"data", "processed", "multi_disease", "test", "COVID">> >>

basic_packages == <<"torch", "torchvision", "torchaudio", "numpy", "pandas",
                    "matplotlib", "seaborn", "scikit-learn", "opencv-python",
                    "Pillow", "requests", "tqdm", "gdown">>

\* third-party modules data_downloader.py imports at its top
required_packages == {"requests", "tqdm", "gdown"}

chest_urls == <<
    "https://www.kaggle.com/datasets/paultimothymooney/chest-xray-pneumonia/download",
    "https://prod-dcd-datasets-cache-zipfiles.s3.eu-west-1.amazonaws.com/rscbjbr9sj-2.zip",
    "https://storage.googleapis.com/kagglesdsdata/datasets/17810/23812/chest_xray.zip" >>

covid_urls == <<
    "https://www.kaggle.com/datasets/tawsifurrahman/covid19-radiography-database/download",
    "https://prod-dcd-datasets-cache-zipfiles.s3.eu-west-1.amazonaws.com/8h65ywd2jr-3.zip" >>

heart_url == "https://archive.ics.uci.edu/ml/machine-learning-databases/heart-disease/processed.cleveland.data"

diabetes_url == "https://raw.githubusercontent.com/jbrownlee/Datasets/master/pima-indians-diabetes.csv"

ZipRoutines == {"chest", "covid"}
Routines == {"chest", "covid", "samples"}
Units == {"chest", "covid", "heart", "diabetes"}

\* the order in which main calls the dataset routines
MainOrder == <<"chest", "covid", "samples">>

Urls(r) == IF r = "chest" THEN chest_urls ELSE covid_urls

\* destination path of each download unit
Dest(u) ==
    CASE u = "chest"    -> <<"data", "raw", "chest_xray", "chest-xray-pneumonia.zip">>
      [] u = "covid"    -> <<"data", "raw", "covid_xray", "covid-radiography.zip">>
      [] u = "heart"    -> <<"data", "raw", "heart_disease", "heart.csv">>
      [] u = "diabetes" -> <<"data", "raw", "diabetes", "diabetes.csv">>

ExtractDir_samedir(r) == <<"data", "raw", "chest_xray">>
\* directory handed to extractall
ExtractDir(r) ==
    IF r = "chest" THEN <<"data", "raw", "chest_xray">>
                   ELSE <<"data", "raw", "covid_xray">>

DATA_INFO == <<"DATA_INFO.md">>
QUICK_START == <<"QUICK_START.md">>

(* ----------------------------- filesystem ------------------------------ *)

Parent(p) == SubSeq(p, 1, Len(p) - 1)
Ancestors(p) == {SubSeq(p, 1, k) : k \in 0..(Len(p) - 1)}
Exists(d, f, p) == p \in d \/ p \in DOMAIN f

\* f with path p bound to content c
Put(f, p, c) == [q \in (DOMAIN f) \cup {p} |-> IF q = p THEN c ELSE f[q]]
\* f without path p
Del(f, p) == [q \in (DOMAIN f) \ {p} |-> f[q]]

\* Path.mkdir(parents, exist_ok) on directories d and files f:
\* the directories afterwards and whether it raised
RECURSIVE mkdir(_, _, _, _, _)
mkdir(d, f, p, parents, exist_ok) ==
    IF Exists(d, f, p)
    THEN [dirs |-> d, err |-> ~(exist_ok /\ p \in d)]
    ELSE IF Parent(p) \in d
    THEN [dirs |-> d \cup {p}, err |-> FALSE]
    ELSE IF Parent(p) \in DOMAIN f \/ ~parents
    THEN [dirs |-> d, err |-> TRUE]
    ELSE LET up == mkdir(d, f, Parent(p), TRUE, TRUE)
         IN  IF up.err THEN up ELSE [dirs |-> up.dirs \cup {p}, err |-> FALSE]

MkdirCall_noexistok(d, f, p) == mkdir(d, f, p, TRUE, FALSE)
\* Path(directory).mkdir(parents=True, exist_ok=True)
MkdirCall(d, f, p) == mkdir(d, f, p, TRUE, TRUE)

\* the loop of create_directory_structure from index i on; a raise ends it
RECURSIVE MkdirLoop(_, _, _)
MkdirLoop(d, f, i) ==
    IF i > Len(directories) THEN [dirs |-> d, err |-> FALSE]
    ELSE LET r == MkdirCall(d, f, directories[i])
         IN  IF r.err THEN r ELSE MkdirLoop(r.dirs, f, i + 1)

create_directory_structure(d, f) == MkdirLoop(d, f, 1)

\* the tree the scaffolder leaves on an empty working directory
ScaffoldedDirs == create_directory_structure({<<>>}, <<>>).dirs

(* ------------------------ download_file_from_url ----------------------- *)

\* chunk i of the body the server at url sends
Chunk(url, i) == [src |-> url, part |-> "body", n |-> i]
Payload(url) == [i \in 1..NumChunks |-> Chunk(url, i)]

\* what one call can meet: the request or its status check raises ("conn"),
\* the stream breaks after n chunks were written ("partial"), or the whole
\* body arrives ("ok")
Outcomes ==
    {[kind |-> "conn", n |-> 0]}
    \cup {[kind |-> "partial", n |-> k] : k \in 0..(NumChunks - 1)}
    \cup {[kind |-> "ok", n |-> NumChunks]}

OpenWb_append(f, p) == IF p \in DOMAIN f THEN f ELSE Put(f, p, <<>>)
\* open(destination, 'wb'): creates the file or truncates it
OpenWb(f, p) == Put(f, p, <<>>)

\* file.write(chunk) for the first k chunks of the body
RECURSIVE WriteChunks(_, _, _, _)
WriteChunks(f, p, url, k) ==
    IF k = 0 THEN f
    ELSE LET g == WriteChunks(f, p, url, k - 1)
         IN  Put(g, p, Append(g[p], Chunk(url, k)))

\* the files afterwards and the value returned; every exception is caught
download_file_from_url(f, d, url, destination, o) ==
    IF o.kind = "conn" \/ Parent(destination) \notin d \/ destination \in d
    THEN [files |-> f, ret |-> FALSE]
    ELSE [files |-> WriteChunks(OpenWb(f, destination), destination, url, o.n),
          ret   |-> o.kind = "ok"]

\* whether the call opened the destination
Opened(d, destination, o) ==
    o.kind # "conn" /\ Parent(destination) \in d /\ destination \notin d

(* ------------------------------ extraction ----------------------------- *)

\* name of member j as stored in the archive; the first one climbs out of
\* the target directory
MemberName(j) ==
    IF j = 1 THEN <<"..", "covid_xray", "1">> ELSE <<"member", ToString(j)>>

\* zipfile drops empty, "." and ".." components of a member name
Sanitize(name) == SelectSeq(name, LAMBDA x : x \notin {"", ".", ".."})

MemberPath(target, j) == target \o Sanitize(MemberName(j))
MemberData(url, j) == <<[src |-> url, part |-> "member", n |-> j]>>

\* a file zipfile.ZipFile can open: a body that arrived whole
IsZip(f, p) ==
    /\ p \in DOMAIN f
    /\ Len(f[p]) > 0
    /\ f[p] = Payload(f[p][1].src)

\* members 1..k written below target
RECURSIVE WriteMembers(_, _, _, _)
WriteMembers(f, url, target, k) ==
    IF k = 0 THEN f
    ELSE Put(WriteMembers(f, url, target, k - 1),
             MemberPath(target, k), MemberData(url, k))

\* ZipFile(destination).extractall(target) stopped by an error after zo
\* members (zo = NumEntries: no error). A file that is no zip raises before
\* anything is written.
extractall(f, d, destination, target, zo) ==
    IF ~IsZip(f, destination)
    THEN [files |-> f, dirs |-> d, n |-> 0, err |-> TRUE]
    ELSE [files |-> WriteMembers(f, f[destination][1].src, target, zo),
          dirs  |-> d \cup UNION {Ancestors(MemberPath(target, j)) : j \in 1..zo},
          n     |-> zo,
          err   |-> zo < NumEntries]

remove_forgotten(f, p) == f
\* os.remove(destination)
remove(f, p) == Del(f, p)

(* ------------------------------ control -------------------------------- *)

LoopDone_nobreak(ret, i, n) == i = n
\* the candidate loop ends on the first True (break) or after the last URL
LoopDone(ret, i, n) == ret \/ i = n

AfterLoop_always(ok) == "extract"
\* if success: extract, else: print the manual instructions and return
AfterLoop(ok) == IF ok THEN "extract" ELSE "dispatch"

\* os.remove is reached only when extractall did not raise
AfterExtract(err) == IF err THEN "dispatch" ELSE "remove"

NextPkg_abort(ok, i) == IF ok THEN i + 1 ELSE Len(basic_packages) + 1
\* CalledProcessError is caught inside the loop: the next package follows
NextPkg(ok, i) == i + 1

AfterImport_uncaught(ok) == IF ok THEN "create_dirs" ELSE "crashed"
\* setup_project: import data_downloader; ImportError is caught
AfterImport(ok) == IF ok THEN "create_dirs" ELSE "guide"

\* download_sample_datasets: the diabetes download follows either way
AfterHeart(ret) == "diabetes"

(* ------------------------------- state --------------------------------- *)

NoFiles == [q \in {} |-> <<>>]
Text(name) == <<[src |-> name, part |-> "text", n |-> 0]>>

Fresh ==
    /\ pkgIdx = 1
    /\ pipCalls = <<>>
    /\ files = NoFiles
    /\ cur = "none"
    /\ urlIdx = 1
    /\ success = FALSE
    /\ attempts = [u \in Units |-> <<>>]
    /\ zipOut = [r \in ZipRoutines |-> -1]
    /\ touched = [r \in Routines |-> {}]
    /\ trace = <<>>
    /\ treeLog = <<>>

\* either script is started in an empty working directory, on a device that
\* has none or all of the modules data_downloader imports
Init ==
    /\ entry \in {"setup", "downloader"}
    /\ importable \in {{}, required_packages}
    /\ pc = IF entry = "setup" THEN "install" ELSE "module_import"
    /\ dirs = {<<>>}
    /\ queue = MainOrder
    /\ Fresh

(* --------------------------- setup_new_device -------------------------- *)

\* one iteration of the loop of install_requirements: pip install package
InstallPackage ==
    /\ pc = "install"
    /\ \E ok \in BOOLEAN :
         LET p   == basic_packages[pkgIdx]
             nxt == NextPkg(ok, pkgIdx)
         IN  /\ pipCalls' = Append(pipCalls, p)
             /\ importable' = IF ok THEN importable \cup ({p} \cap required_packages)
                                    ELSE importable
             /\ pkgIdx' = nxt
             /\ pc' = IF nxt > Len(basic_packages) THEN "setup_project" ELSE "install"
             /\ trace' = IF pkgIdx = 1 THEN Append(trace, "install_requirements")
                                       ELSE trace
    /\ UNCHANGED <<entry, dirs, files, queue, cur, urlIdx, success, attempts,
                   zipOut, touched, treeLog>>

\* setup_project up to the call of data_downloader.main
SetupProject ==
    /\ pc = "setup_project"
    /\ pc' = AfterImport(required_packages \subseteq importable)
    /\ trace' = Append(trace, "setup_project")
    /\ UNCHANGED <<entry, importable, pkgIdx, pipCalls, dirs, files, queue, cur,
                   urlIdx, success, attempts, zipOut, touched, treeLog>>

\* create_quick_start_guide and the closing banner of main
CreateQuickStartGuide ==
    /\ pc = "guide"
    /\ files' = Put(files, QUICK_START, Text("guide_content"))
    /\ trace' = trace \o <<"create_quick_start_guide", "setup_banner">>
    /\ pc' = "done"
    /\ UNCHANGED <<entry, importable, pkgIdx, pipCalls, dirs, queue, cur, urlIdx,
                   success, attempts, zipOut, touched, treeLog>>

(* ---------------------------- data_downloader -------------------------- *)

\* python data_downloader.py: the imports at the top of the module, then the
\* __main__ block
RunDataDownloader ==
    /\ pc = "module_import"
    /\ pc' = IF required_packages \subseteq importable THEN "create_dirs"
                                                      ELSE "import_error"
    /\ UNCHANGED <<entry, importable, pkgIdx, pipCalls, dirs, files, queue, cur,
                   urlIdx, success, attempts, zipOut, touched, trace, treeLog>>

\* main: create_directory_structure()
CreateDirectoryStructure ==
    /\ pc = "create_dirs"
    /\ LET r == create_directory_structure(dirs, files)
       IN  /\ dirs' = r.dirs
           /\ pc' = IF r.err THEN "crashed" ELSE "dispatch"
    /\ trace' = Append(trace, "create_directory_structure")
    /\ UNCHANGED <<entry, importable, pkgIdx, pipCalls, files, queue, cur, urlIdx,
                   success, attempts, zipOut, touched, treeLog>>

\* main calls the next dataset routine; the routine sets success = False
CallRoutine ==
    /\ pc = "dispatch"
    /\ queue # <<>>
    /\ cur' = Head(queue)
    /\ queue' = Tail(queue)
    /\ trace' = Append(trace, Head(queue))
    /\ pc' = IF Head(queue) \in ZipRoutines THEN "loop" ELSE "heart"
    /\ urlIdx' = 1
    /\ success' = FALSE
    /\ UNCHANGED <<entry, importable, pkgIdx, pipCalls, dirs, files, attempts,
                   zipOut, touched, treeLog>>

\* one iteration of the candidate loop of a zip routine
DownloadAttempt ==
    /\ pc = "loop"
    /\ \E o \in Outcomes :
         LET u   == Urls(cur)[urlIdx]
             res == download_file_from_url(files, dirs, u, Dest(cur), o)
             ok  == success \/ res.ret
         IN  /\ files' = res.files
             /\ attempts' = [attempts EXCEPT
                    ![cur] = Append(@, [url |-> u, kind |-> o.kind, n |-> o.n])]
             /\ touched' = IF Opened(dirs, Dest(cur), o)
                           THEN [touched EXCEPT ![cur] = @ \cup {Dest(cur)}]
                           ELSE touched
             /\ success' = ok
             /\ IF LoopDone(res.ret, urlIdx, Len(Urls(cur)))
                THEN pc' = AfterLoop(ok) /\ urlIdx' = urlIdx
                ELSE pc' = "loop" /\ urlIdx' = urlIdx + 1
    /\ UNCHANGED <<entry, importable, pkgIdx, pipCalls, dirs, queue, cur, zipOut,
                   trace, treeLog>>

\* with zipfile.ZipFile(destination) as zip_ref: zip_ref.extractall(dir)
Extract ==
    /\ pc = "extract"
    /\ \E zo \in 0..NumEntries :
         LET res == extractall(files, dirs, Dest(cur), ExtractDir(cur), zo)
         IN  /\ files' = res.files
             /\ dirs' = res.dirs
             /\ zipOut' = [zipOut EXCEPT ![cur] = res.n]
             /\ touched' = [touched EXCEPT ![cur] = @ \cup {Dest(cur)}
                              \cup {MemberPath(ExtractDir(cur), j) : j \in 1..res.n}]
             /\ pc' = AfterExtract(res.err)
    /\ UNCHANGED <<entry, importable, pkgIdx, pipCalls, queue, cur, urlIdx, success,
                   attempts, trace, treeLog>>

\* os.remove(destination); a raise is caught by the same except clause
RemoveArchive ==
    /\ pc = "remove"
    /\ files' = IF Dest(cur) \in DOMAIN files THEN remove(files, Dest(cur)) ELSE files
    /\ touched' = [touched EXCEPT ![cur] = @ \cup {Dest(cur)}]
    /\ pc' = "dispatch"
    /\ UNCHANGED <<entry, importable, pkgIdx, pipCalls, dirs, queue, cur, urlIdx,
                   success, attempts, zipOut, trace, treeLog>>

\* download_sample_datasets: the heart disease download
DownloadHeart ==
    /\ pc = "heart"
    /\ \E o \in Outcomes :
         LET res == download_file_from_url(files, dirs, heart_url, Dest("heart"), o)
         IN  /\ files' = res.files
             /\ attempts' = [attempts EXCEPT
                    !["heart"] = Append(@, [url |-> heart_url, kind |-> o.kind, n |-> o.n])]
             /\ touched' = IF Opened(dirs, Dest("heart"), o)
                           THEN [touched EXCEPT ![cur] = @ \cup {Dest("heart")}]
                           ELSE touched
             /\ pc' = AfterHeart(res.ret)
    /\ UNCHANGED <<entry, importable, pkgIdx, pipCalls, dirs, queue, cur, urlIdx,
                   success, zipOut, trace, treeLog>>

\* download_sample_datasets: the diabetes download
DownloadDiabetes ==
    /\ pc = "diabetes"
    /\ \E o \in Outcomes :
         LET res == download_file_from_url(files, dirs, diabetes_url, Dest("diabetes"), o)
         IN  /\ files' = res.files
             /\ attempts' = [attempts EXCEPT
                    !["diabetes"] = Append(@, [url |-> diabetes_url, kind |-> o.kind, n |-> o.n])]
             /\ touched' = IF Opened(dirs, Dest("diabetes"), o)
                           THEN [touched EXCEPT ![cur] = @ \cup {Dest("diabetes")}]
                           ELSE touched
             /\ pc' = "dispatch"
    /\ UNCHANGED <<entry, importable, pkgIdx, pipCalls, dirs, queue, cur, urlIdx,
                   success, zipOut, trace, treeLog>>

\* main: create_data_info_file() and the closing banner; control returns to
\* setup_project when that is the caller
CreateDataInfoFile ==
    /\ pc = "dispatch"
    /\ queue = <<>>
    /\ files' = Put(files, DATA_INFO, Text("info_content"))
    /\ trace' = trace \o <<"create_data_info_file", "downloader_banner">>
    /\ pc' = IF entry = "setup" THEN "guide" ELSE "done"
    /\ UNCHANGED <<entry, importable, pkgIdx, pipCalls, dirs, queue, cur, urlIdx,
                   success, attempts, zipOut, touched, treeLog>>

Next ==
    \/ InstallPackage
    \/ SetupProject
    \/ CreateQuickStartGuide
    \/ RunDataDownloader
    \/ CreateDirectoryStructure
    \/ CallRoutine
    \/ DownloadAttempt
    \/ Extract
    \/ RemoveArchive
    \/ DownloadHeart
    \/ DownloadDiabetes
    \/ CreateDataInfoFile

Spec == Init /\ [][Next]_vars

(* ---------------- the dataset routines in every order ------------------ *)

Orders == {q \in [1..Len(MainOrder) -> Routines] : \A r \in Routines : \E i \in DOMAIN q : q[i] = r}

\* the state main is in after create_directory_structure, with the three
\* calls of the dataset routines put in any order
InitReorder ==
    /\ entry = "downloader"
    /\ importable = required_packages
    /\ pc = "dispatch"
    /\ dirs = ScaffoldedDirs
    /\ queue \in Orders
    /\ Fresh

NextReorder ==
    \/ CallRoutine
    \/ DownloadAttempt
    \/ Extract
    \/ RemoveArchive
    \/ DownloadHeart
    \/ DownloadDiabetes

SpecReorder == InitReorder /\ [][NextReorder]_vars

(* ------------------- the scaffolder invoked repeatedly ----------------- *)

Range(q) == {q[i] : i \in DOMAIN q}
Closure(S) == S \cup UNION {Ancestors(p) : p \in S} \cup {<<>>}

\* a working directory where any subset of the listed directories exists,
\* with or without a file left by an earlier run
InitScaffold ==
    /\ entry = "downloader"
    /\ importable = required_packages
    /\ pc = "scaffold"
    /\ dirs \in {Closure(S) : S \in SUBSET Range(directories)}
    /\ queue = MainOrder
    /\ pkgIdx = 1
    /\ pipCalls = <<>>
    /\ files \in {f \in {NoFiles, Put(NoFiles, Dest("heart"), Text("stale"))} :
                    \A p \in DOMAIN f : Parent(p) \in dirs}
    /\ cur = "none"
    /\ urlIdx = 1
    /\ success = FALSE
    /\ attempts = [u \in Units |-> <<>>]
    /\ zipOut = [r \in ZipRoutines |-> -1]
    /\ touched = [r \in Routines |-> {}]
    /\ trace = <<>>
    /\ treeLog = <<>>

\* one more call of create_directory_structure()
InvokeScaffolder ==
    /\ pc = "scaffold"
    /\ Len(treeLog) < MaxCalls
    /\ LET r == create_directory_structure(dirs, files)
       IN  /\ dirs' = r.dirs
           /\ treeLog' = Append(treeLog, [before |-> dirs, files |-> files,
                                          after |-> r.dirs, err |-> r.err])
           /\ pc' = IF r.err THEN "crashed" ELSE "scaffold"
    /\ UNCHANGED <<entry, importable, pkgIdx, pipCalls, files, queue, cur, urlIdx,
                   success, attempts, zipOut, touched, trace>>

NextScaffold == InvokeScaffolder

SpecScaffold == InitScaffold /\ [][NextScaffold]_vars

(* ------------------------------ properties ----------------------------- *)

UnitUrls(u) ==
    CASE u \in ZipRoutines -> Urls(u)
      [] u = "heart"       -> <<heart_url>>
      [] u = "diabetes"    -> <<diabetes_url>>

Last(q) == q[Len(q)]
Succeeded(u) == Len(attempts[u]) > 0 /\ Last(attempts[u]).kind = "ok"
AllFailed(u) ==
    /\ Len(attempts[u]) = Len(UnitUrls(u))
    /\ \A i \in DOMAIN attempts[u] : attempts[u][i].kind # "ok"

Running(r) ==
    /\ cur = r
    /\ pc \in {"loop", "extract", "remove", "heart", "diabetes"}
Returned(r) == r \notin Range(queue) /\ ~Running(r)

IsPrefix(a, b) == Len(a) <= Len(b) /\ a = SubSeq(b, 1, Len(a))
Under(p, d) == Len(p) > Len(d) /\ SubSeq(p, 1, Len(d)) = d

\* C1: in each zip routine the candidate URLs are tried in list order, each
\* at most once, and no URL is tried after one that succeeded: a URL is tried
\* only if every earlier one failed.
C1_OrderedUntilFirstSuccess ==
    \A r \in ZipRoutines :
        LET a == attempts[r]
        IN  /\ Len(a) <= Len(Urls(r))
            /\ \A i \in DOMAIN a :
                 /\ a[i].url = Urls(r)[i]
                 /\ i < Len(a) => a[i].kind # "ok"
            /\ \A i, j \in DOMAIN a : i # j => a[i].url # a[j].url

\* a routine returned after its second candidate succeeded where the first failed
C1_Witness ==
    /\ Returned("chest")
    /\ Len(attempts["chest"]) = 2
    /\ attempts["chest"][1].kind = "partial"
    /\ attempts["chest"][2].kind = "ok"

\* C2: when every candidate of a download failed, no file is left at the
\* destination path, however the attempts failed.
C2_AllFailedLeavesNoFile ==
    \A u \in Units : AllFailed(u) => Dest(u) \notin DOMAIN files

\* C3: after a successful download the destination holds exactly the body
\* of the candidate that succeeded, whatever earlier failed attempts wrote
\* (for an archive: as long as a completed extraction has not removed it).
C3_SuccessWritesExactPayload ==
    \A u \in Units :
        (Succeeded(u) /\ (u \in ZipRoutines => zipOut[u] < NumEntries))
        => /\ Dest(u) \in DOMAIN files
           /\ files[Dest(u)] = Payload(Last(attempts[u]).url)

\* the loop ended with a success after an attempt that left a partial file
C3_Witness ==
    /\ pc = "extract"
    /\ Len(attempts[cur]) >= 2
    /\ attempts[cur][1].kind = "partial"
    /\ attempts[cur][1].n >= 1
    /\ Succeeded(cur)

\* C4: when extraction completed without error the members are in the target
\* directory and the archive is gone when the routine returns; and the
\* archive of a successful download is never gone unless the extraction
\* completed.
C4_ArchiveRemovedAfterExtraction ==
    \A r \in ZipRoutines :
        /\ (Returned(r) /\ zipOut[r] = NumEntries)
           => /\ Dest(r) \notin DOMAIN files
              /\ \A j \in 1..NumEntries :
                   /\ MemberPath(ExtractDir(r), j) \in DOMAIN files
                   /\ files[MemberPath(ExtractDir(r), j)]
                        = MemberData(Last(attempts[r]).url, j)
        /\ (Succeeded(r) /\ Dest(r) \notin DOMAIN files)
           => /\ zipOut[r] = NumEntries
              /\ \A j \in 1..NumEntries : MemberPath(ExtractDir(r), j) \in DOMAIN files

\* a routine returned after a complete extraction
C4_Witness ==
    /\ Returned("covid")
    /\ zipOut["covid"] = NumEntries
    /\ Len(attempts["covid"]) = 2

\* C5: when extraction raised, the target directory holds what it held before
\* the extraction started (the archive alone), wherever the error occurred.
C5_FailedExtractionLeavesTargetUnchanged ==
    \A r \in ZipRoutines :
        (zipOut[r] >= 0 /\ zipOut[r] < NumEntries)
        => /\ {p \in DOMAIN files : Under(p, ExtractDir(r))} = {Dest(r)}
           /\ {p \in dirs : Under(p, ExtractDir(r))} = {}

\* C6: every invocation of the scaffolder, on a tree where any subset of the
\* listed directories exists, raises nothing, keeps every directory and file
\* that existed, and leaves the tree the first invocation left.
C6_ScaffolderIdempotent ==
    \A i \in DOMAIN treeLog :
        /\ ~treeLog[i].err
        /\ treeLog[i].before \subseteq treeLog[i].after
        /\ treeLog[i].after = treeLog[i].before \cup Closure(Range(directories))
        /\ treeLog[i].after = treeLog[1].after
        /\ treeLog[i].files = files
        /\ i = Len(treeLog) => dirs = treeLog[i].after

\* the scaffolder ran twice on a tree that held some listed directories, not
\* all, and a file
C6_Witness ==
    /\ Len(treeLog) = 2
    /\ \E p, q \in Range(directories) :
         p \in treeLog[1].before /\ q \notin treeLog[1].before
    /\ files # NoFiles

DownloaderTrace ==
    <<"create_directory_structure">> \o MainOrder
        \o <<"create_data_info_file", "downloader_banner">>

\* setup_new_device.main with data_downloader.main run inside setup_project
FullSetupTrace ==
    <<"install_requirements", "setup_project">> \o DownloaderTrace
        \o <<"create_quick_start_guide", "setup_banner">>

\* setup_new_device.main where setup_project did not reach data_downloader.main
SkippedSetupTrace ==
    <<"install_requirements", "setup_project",
      "create_quick_start_guide", "setup_banner">>

Terminated == pc \in {"done", "import_error"}

\* the guard of some action of Next holds: each action is enabled by its
\* position alone, whatever outcome the environment picks
CanStep ==
    \/ pc \in {"install", "setup_project", "guide", "module_import", "create_dirs"}
    \/ pc = "dispatch"
    \/ pc = "loop" /\ cur \in ZipRoutines /\ urlIdx \in DOMAIN Urls(cur)
    \/ pc \in {"extract", "remove"} /\ cur \in ZipRoutines
    \/ pc \in {"heart", "diabetes"}

RECURSIVE ReplayAttempts(_, _, _, _, _)
ReplayAttempts(f, d, u, a, i) ==
    IF i > Len(a) THEN f
    ELSE ReplayAttempts(
            download_file_from_url(f, d, a[i].url, Dest(u),
                                   [kind |-> a[i].kind, n |-> a[i].n]).files,
            d, u, a, i + 1)

ReplayZip(fs, r) ==
    LET f1 == ReplayAttempts(fs.files, fs.dirs, r, attempts[r], 1)
    IN  IF zipOut[r] < 0 THEN [files |-> f1, dirs |-> fs.dirs]
        ELSE LET x == extractall(f1, fs.dirs, Dest(r), ExtractDir(r), zipOut[r])
             IN  [files |-> IF x.err \/ Dest(r) \notin DOMAIN x.files
                            THEN x.files ELSE remove(x.files, Dest(r)),
                  dirs  |-> x.dirs]

ReplaySamples(fs) ==
    [files |-> ReplayAttempts(
                   ReplayAttempts(fs.files, fs.dirs, "heart", attempts["heart"], 1),
                   fs.dirs, "diabetes", attempts["diabetes"], 1),
     dirs  |-> fs.dirs]

MainOrderResult ==
    ReplaySamples(ReplayZip(ReplayZip([files |-> NoFiles, dirs |-> ScaffoldedDirs],
                                      "chest"), "covid"))

\* where a routine keeps its files
Region(r) ==
    CASE r = "chest"   -> {<<"data", "raw", "chest_xray">>}
      [] r = "covid"   -> {<<"data", "raw", "covid_xray">>}
      [] r = "samples" -> {<<"data", "raw", "heart_disease">>, <<"data", "raw", "diabetes">>}

\* C8: the paths a dataset routine opens, writes or deletes lie in its own
\* dataset directories and are disjoint from those of the other routines, and
\* once the three routines have returned, in whatever order they were called,
\* the filesystem is the one the order of main produces from the same
\* download and extraction outcomes.
C8_RoutinesIndependent ==
    /\ \A r \in Routines : \A p \in touched[r] : \E d \in Region(r) : Under(p, d)
    /\ \A r1, r2 \in Routines : r1 # r2 => touched[r1] \cap touched[r2] = {}
    /\ (pc = "dispatch" /\ queue = <<>>)
       => /\ files = MainOrderResult.files
          /\ dirs = MainOrderResult.dirs

\* the routines ran in the reverse of main's order and both archives were
\* extracted
C8_Witness ==
    /\ pc = "dispatch"
    /\ queue = <<>>
    /\ trace = <<"samples", "covid", "chest">>
    /\ zipOut["chest"] = NumEntries
    /\ zipOut["covid"] = NumEntries
    /\ Succeeded("heart")

\* C9: pip install is called once per package of basic_packages, in list
\* order, whatever installs fail, and install_requirements returns after the
\* last package.
C9_InstallOncePerPackageInOrder ==
    /\ IsPrefix(pipCalls, basic_packages)
    /\ pc = "install" => pkgIdx = Len(pipCalls) + 1 /\ pkgIdx <= Len(basic_packages)
    /\ (entry = "setup" /\ pc # "install") => pipCalls = basic_packages
    /\ pc # "crashed"

\* the install of requests failed and the installs after it were still made
C9_Witness ==
    /\ pc = "setup_project"
    /\ pipCalls = basic_packages
    /\ "requests" \notin importable
    /\ "gdown" \in importable

\* C10: a zip routine extracts and deletes its archive only after a
\* candidate succeeded; when every candidate failed nothing is extracted and
\* the file the last opened attempt left stays at the destination; the
\* diabetes download is made whether or not the heart download succeeded.
C10_ExtractionOnlyAfterSuccess ==
    /\ \A r \in ZipRoutines :
         /\ zipOut[r] >= 0 => Succeeded(r)
         /\ (Running(r) /\ pc \in {"extract", "remove"}) => Succeeded(r)
         /\ AllFailed(r)
            => /\ zipOut[r] = -1
               /\ \A i \in DOMAIN attempts[r] :
                    (/\ attempts[r][i].kind = "partial"
                     /\ \A j \in DOMAIN attempts[r] : j > i => attempts[r][j].kind = "conn")
                    => /\ Dest(r) \in DOMAIN files
                       /\ files[Dest(r)] = SubSeq(Payload(attempts[r][i].url), 1, attempts[r][i].n)
    /\ (Len(attempts["heart"]) = 1 /\ pc # "diabetes") => Len(attempts["diabetes"]) = 1
    /\ Len(attempts["heart"]) <= 1 /\ Len(attempts["diabetes"]) <= 1

\* every chest candidate failed, the last one after writing a chunk, and the
\* diabetes download was made after the heart download failed
C10_Witness ==
    /\ AllFailed("chest")
    /\ Last(attempts["chest"]).kind = "partial"
    /\ Last(attempts["chest"]).n >= 1
    /\ Dest("chest") \in DOMAIN files
    /\ AllFailed("heart")
    /\ Len(attempts["diabetes"]) = 1

====
